---- MODULE Spec2Model ----
(***************************************************************************)
(* Starbelly subscription engine (src/starbelly/subscription.py).          *)
(*                                                                         *)
(* The SubscriptionManager is modelled at the granularity of asyncio's     *)
(* cooperative scheduling: every coroutine runs atomically from one await  *)
(* to the next, and the event loop may pick any runnable coroutine or      *)
(* callback.  A producer task is abstracted to its life cycle (pending,    *)
(* cancellation requested, done).  When a task is done the loop runs its   *)
(* done-callback task_ended, which only creates the unsubscribe coroutine; *)
(* that coroutine starts at a later step of the loop.                      *)
(*                                                                         *)
(* The producers themselves have specifications of their own, over the     *)
(* same variables: TokenSpec (the sync token codec and the constructor of  *)
(* CrawlSyncSubscription), SyncSpec, SyncLiveSpec and SyncStartSpec        *)
(* (CrawlSyncSubscription with its job, the response table, the tracker    *)
(* and the client's socket; without cancellation under fairness; beside a  *)
(* second job) and StatusSpec and StatusLiveSpec (JobStatusSubscription    *)
(* with the tracker and a clock; without cancellation under fairness).     *)
(***************************************************************************)
EXTENDS Integers, FiniteSets, Sequences, TLC

\* ------------------------------------------------------------- bounds
NumSockets == 2        \* connected client sockets
MaxCalls == 4          \* calls made to the manager in one run: add,
                       \* unsubscribe, close_for_socket and close_all together

LiveMaxCalls == 3      \* the same, in the runs checked for liveness

Sockets == 1..NumSockets
Ids == 0..(MaxCalls - 1)
Calls == 1..MaxCalls

VARIABLES
    subscription_id_sequence, \* _subscription_id_sequence._sequence
    constructed,              \* subscription objects: id -> [socket, add]
    closed,                   \* SubscriptionManager._closed
    closing,                  \* SubscriptionManager._closing
    subscriptions,            \* SubscriptionManager._subscriptions
    task,                     \* producer tasks made by add: id -> state
    taskEndedCalls,           \* the unsubscribe coroutine of each task's
                              \* task_ended callback: id -> pc
    unsubscribeCalls,         \* the clients' invocations of unsubscribe
    closeCalls,               \* invocations of close_for_socket
    closeAllCalls,            \* invocations of close_all
    issuer_sequence,          \* CrawlSyncSubscription._sequence of a stream
                              \* that issues a sync token
    sync_token,               \* a sync token: issued by _get_sync_token, or
                              \* the sync_token argument a client supplies
    ctor,                     \* the outcome of CrawlSyncSubscription.__init__
                              \* called with sync_token
    job,                      \* the tracker's status of the subscribed job,
                              \* which the job's database row follows
    response,                 \* the job's rows of the response table:
                              \* insert_sequence -> is_success
    listeners,                \* tracker.job_status_changed: the ids of the
                              \* subscriptions whose callback is registered
    sync,                     \* the CrawlSyncSubscription and its run()
    sent,                     \* the messages sent to the client's socket
    jobs,                     \* tracker.get_all_job_status(): job_id -> status
    status                    \* the JobStatusSubscription and its run()

tokenVars == <<issuer_sequence, sync_token, ctor>>
producerVars == <<job, response, listeners, sync, sent>>
statusVars == <<jobs, status>>

\* The state of the token codec and of the producers, which the manager
\* never reads.
streamVars == <<tokenVars, producerVars, statusVars>>

vars == <<subscription_id_sequence, constructed, closed, closing,
          subscriptions, task, taskEndedCalls, unsubscribeCalls, closeCalls,
          closeAllCalls, streamVars>>

\* ------------------------------------------------------------- helpers
EmptyDict == [k \in {} |-> k]

\* dict[key] = value
SetItem(d, k, v) == [x \in DOMAIN d \cup {k} |-> IF x = k THEN v ELSE d[x]]

\* del dict[key] (the key is present)
DelItem(d, k) == [x \in DOMAIN d \ {k} |-> d[x]]

\* defaultdict(dict).__getitem__ : a missing key is inserted with a new dict
Missing(d, s) == IF s \in DOMAIN d THEN d ELSE SetItem(d, s, EmptyDict)

\* dict.values()
Values(d) == {d[k] : k \in DOMAIN d}

\* Task.done(): the producer returned or raised ("finished"), or was
\* cancelled.
TaskDone == {"finished", "cancelled"}
Done(t) == task[t] \in TaskDone
AllDone(F) == \A t \in F : Done(t)

\* cancel_futures, first half: future.cancel() for each future.  Cancelling a
\* task that is done changes nothing; a pending task is thrown CancelledError
\* at its next step.
Cancel(F) == [t \in DOMAIN task |->
                 IF t \in F /\ task[t] = "pending" THEN "cancelling" ELSE task[t]]

\* ------------------------------------------------------------- Sequence
\* A next() that returns the first number again and again.
SequenceNext_Stuck(seq) == IF seq < 0 THEN 0 ELSE seq

\* Sequence.next()
SequenceNext(seq) == seq + 1

\* ------------------------------------------------------------- calls
\* The calls made to the manager so far.
CallsMade ==
    (subscription_id_sequence + 1) + Len(unsubscribeCalls) + Len(closeCalls)
    + Len(closeAllCalls)

\* Sockets are opaque identities: the first one a call names is socket 1, the
\* next new one socket 2, and so on.
NamedSockets ==
    {constructed[i].socket : i \in DOMAIN constructed}
    \cup {unsubscribeCalls[i].socket : i \in DOMAIN unsubscribeCalls}
    \cup {closeCalls[i].socket : i \in DOMAIN closeCalls}
MayName(s) == \A x \in 1..(s - 1) : x \in NamedSockets

\* No producer is modelled: no job, no listener, no stream, nothing sent.
ProducersIdle ==
    /\ job = [run_state |-> "None", item_count |-> 0]
    /\ response = EmptyDict
    /\ listeners = {}
    /\ sync = [pc |-> "none"]
    /\ sent = <<>>
    /\ jobs = EmptyDict
    /\ status = [pc |-> "none"]

\* No token is in hand and no stream is being constructed.
StreamsIdle ==
    /\ issuer_sequence = -1
    /\ sync_token = [kind |-> "unset"]
    /\ ctor = [status |-> "none"]
    /\ ProducersIdle

Init ==
    /\ subscription_id_sequence = -1
    /\ constructed = EmptyDict
    /\ closed = FALSE
    /\ closing = {}
    /\ subscriptions = EmptyDict
    /\ task = EmptyDict
    /\ taskEndedCalls = EmptyDict
    /\ unsubscribeCalls = <<>>
    /\ closeCalls = <<>>
    /\ closeAllCalls = <<>>
    /\ StreamsIdle

\* ------------------------------------------------------------- add
\* add without its test of self._closed.
AddOutcome_IgnoresClosed(s) ==
    IF s \in closing THEN "closing" ELSE "ok"

\* The exception add raises, or "ok".
AddOutcome(s) ==
    IF closed THEN "closed"
    ELSE IF s \in closing THEN "closing"
    ELSE "ok"

\* SubscriptionManager.add(subscription), the subscription having socket s
\* and the id its constructor drew from the sequence.
add(id, s) ==
    /\ constructed' = SetItem(constructed, id, [socket |-> s, add |-> AddOutcome(s)])
    /\ IF AddOutcome(s) = "ok"
       THEN /\ task' = SetItem(task, id, "pending")
            /\ taskEndedCalls' = SetItem(taskEndedCalls, id, "none")
            /\ subscriptions' = SetItem(Missing(subscriptions, s), s,
                                        SetItem(Missing(subscriptions, s)[s], id, id))
       ELSE UNCHANGED <<task, taskEndedCalls, subscriptions>>

\* A subscription is constructed for socket s (its id is the next number of
\* the sequence) and handed to add.
Subscribe(s) ==
    /\ CallsMade < MaxCalls
    /\ MayName(s)
    /\ subscription_id_sequence' = SequenceNext(subscription_id_sequence)
    /\ add(SequenceNext(subscription_id_sequence), s)
    /\ UNCHANGED <<closed, closing, unsubscribeCalls, closeCalls, closeAllCalls,
                   streamVars>>

\* ------------------------------------------------------------- producers
\* A task_ended that schedules no unsubscribe.
task_ended_SchedulesNothing(t) == taskEndedCalls' = taskEndedCalls

\* add.task_ended(f): daemon_task(self.unsubscribe(socket, subscription.id))
task_ended(t) == taskEndedCalls' = [taskEndedCalls EXCEPT ![t] = "scheduled"]

\* The producer returns (END sent) or raises (database error, send error,
\* unexpected exception): the task is done and its done-callback runs.
TaskFinishes(t) ==
    /\ t \in DOMAIN task
    /\ task[t] = "pending"
    /\ task' = [task EXCEPT ![t] = "finished"]
    /\ task_ended(t)
    /\ UNCHANGED <<subscription_id_sequence, constructed, closed, closing,
                   subscriptions, unsubscribeCalls, closeCalls, closeAllCalls,
                   streamVars>>

\* The producer is thrown CancelledError at its suspension point: the task is
\* done and its done-callback runs.
TaskCancelled(t) ==
    /\ t \in DOMAIN task
    /\ task[t] = "cancelling"
    /\ task' = [task EXCEPT ![t] = "cancelled"]
    /\ task_ended(t)
    /\ UNCHANGED <<subscription_id_sequence, constructed, closed, closing,
                   subscriptions, unsubscribeCalls, closeCalls, closeAllCalls,
                   streamVars>>

\* ------------------------------------------------------------- unsubscribe
\* An unsubscribe whose KeyError escapes.
KeyErrorOutcome_Uncaught == "raised"

\* Where unsubscribe goes on a KeyError: the except clause logs it and the
\* coroutine returns.
KeyErrorOutcome == "returned"

\* unsubscribe up to its await: the lookup of the task and cancel_futures'
\* cancel.  A missing (socket, id) raises KeyError.
unsubscribe_lookup(s, id) ==
    LET d == Missing(subscriptions, s)
    IN  IF id \in DOMAIN d[s]
        THEN [subscriptions |-> d, task |-> Cancel({d[s][id]}), pc |-> "awaiting"]
        ELSE [subscriptions |-> d, task |-> task, pc |-> KeyErrorOutcome]

\* unsubscribe after its await: del self._subscriptions[socket][id].
unsubscribe_delete(s, id) ==
    LET d == Missing(subscriptions, s)
    IN  IF id \in DOMAIN d[s]
        THEN [subscriptions |-> SetItem(d, s, DelItem(d[s], id)), pc |-> "returned"]
        ELSE [subscriptions |-> d, pc |-> KeyErrorOutcome]

\* The unsubscribe coroutine that task_ended made starts running.
UnsubscribeScheduled(t) ==
    /\ t \in DOMAIN taskEndedCalls
    /\ taskEndedCalls[t] = "scheduled"
    /\ LET r == unsubscribe_lookup(constructed[t].socket, t)
       IN  /\ subscriptions' = r.subscriptions
           /\ task' = r.task
           /\ taskEndedCalls' = [taskEndedCalls EXCEPT ![t] = r.pc]
    /\ UNCHANGED <<subscription_id_sequence, constructed, closed, closing,
                   unsubscribeCalls, closeCalls, closeAllCalls,
                   streamVars>>

\* ... and resumes when cancel_futures has waited for the task.
UnsubscribeScheduledResume(t) ==
    /\ t \in DOMAIN taskEndedCalls
    /\ taskEndedCalls[t] = "awaiting"
    /\ Done(t)
    /\ LET r == unsubscribe_delete(constructed[t].socket, t)
       IN  /\ subscriptions' = r.subscriptions
           /\ taskEndedCalls' = [taskEndedCalls EXCEPT ![t] = r.pc]
    /\ UNCHANGED <<subscription_id_sequence, constructed, closed, closing,
                   task, unsubscribeCalls, closeCalls, closeAllCalls,
                   streamVars>>

\* A client asks to unsubscribe (socket, id), registered or not.
UnsubscribeRequest(s, id) ==
    /\ CallsMade < MaxCalls
    /\ MayName(s)
    /\ id <= subscription_id_sequence + 1
    /\ LET r == unsubscribe_lookup(s, id)
       IN  /\ subscriptions' = r.subscriptions
           /\ task' = r.task
           /\ unsubscribeCalls' = Append(unsubscribeCalls,
                                         [pc |-> r.pc, socket |-> s, id |-> id])
    /\ UNCHANGED <<subscription_id_sequence, constructed, closed, closing,
                   taskEndedCalls, closeCalls, closeAllCalls,
                   streamVars>>

\* ... and resumes when cancel_futures has waited for the task.
UnsubscribeResume(c) ==
    /\ c \in DOMAIN unsubscribeCalls
    /\ unsubscribeCalls[c].pc = "awaiting"
    /\ Done(unsubscribeCalls[c].id)
    /\ LET r == unsubscribe_delete(unsubscribeCalls[c].socket, unsubscribeCalls[c].id)
       IN  /\ subscriptions' = r.subscriptions
           /\ unsubscribeCalls' = [unsubscribeCalls EXCEPT ![c].pc = r.pc]
    /\ UNCHANGED <<subscription_id_sequence, constructed, closed, closing,
                   task, taskEndedCalls, closeCalls, closeAllCalls,
                   streamVars>>

\* ------------------------------------------------------------- close_for_socket
\* A close_for_socket that takes the tasks of every socket.
SocketTasks_OfEverySocket(s) ==
    UNION {Values(subscriptions[x]) : x \in DOMAIN subscriptions}

\* subscriptions = self._subscriptions.get(socket, {}).values()
SocketTasks(s) == IF s \in DOMAIN subscriptions THEN Values(subscriptions[s]) ELSE {}

\* close_for_socket up to its await.
close_for_socket_begin(s) ==
    IF SocketTasks(s) # {}
    THEN [closing |-> closing \cup {s}, task |-> Cancel(SocketTasks(s)),
          pc |-> "awaiting", waiting |-> SocketTasks(s)]
    ELSE [closing |-> closing, task |-> task, pc |-> "returned", waiting |-> {}]

\* close_for_socket after its await: del self._subscriptions[socket], then
\* self._closing.remove(socket); either raises KeyError on a missing key.
close_for_socket_finish(s) ==
    IF s \notin DOMAIN subscriptions
    THEN [subscriptions |-> subscriptions, closing |-> closing, pc |-> "raised"]
    ELSE IF s \notin closing
    THEN [subscriptions |-> DelItem(subscriptions, s), closing |-> closing,
          pc |-> "raised"]
    ELSE [subscriptions |-> DelItem(subscriptions, s), closing |-> closing \ {s},
          pc |-> "returned"]

CloseForSocket(s) ==
    /\ CallsMade < MaxCalls
    /\ MayName(s)
    /\ LET r == close_for_socket_begin(s)
       IN  /\ closing' = r.closing
           /\ task' = r.task
           /\ closeCalls' = Append(closeCalls,
                 [pc |-> r.pc, socket |-> s, waiting |-> r.waiting])
    /\ UNCHANGED <<subscription_id_sequence, constructed, closed, subscriptions,
                   taskEndedCalls, unsubscribeCalls, closeAllCalls,
                   streamVars>>

\* cancel_futures has waited for every task: close_for_socket resumes.
CloseForSocketResume(c) ==
    /\ c \in DOMAIN closeCalls
    /\ closeCalls[c].pc = "awaiting"
    /\ AllDone(closeCalls[c].waiting)
    /\ LET r == close_for_socket_finish(closeCalls[c].socket)
       IN  /\ subscriptions' = r.subscriptions
           /\ closing' = r.closing
           /\ closeCalls' = [closeCalls EXCEPT ![c].pc = r.pc, ![c].waiting = {}]
    /\ UNCHANGED <<subscription_id_sequence, constructed, closed, task,
                   taskEndedCalls, unsubscribeCalls, closeAllCalls,
                   streamVars>>

\* ------------------------------------------------------------- close_all
\* sub_tasks of close_all: every task of every socket.
AllTasks == UNION {Values(subscriptions[s]) : s \in DOMAIN subscriptions}

\* A close_all that does not mark the manager closed.
close_all_begin_StaysOpen ==
    [closed |-> closed, task |-> Cancel(AllTasks), pc |-> "awaiting",
     waiting |-> AllTasks]

\* close_all up to its await.
close_all_begin ==
    [closed |-> TRUE, task |-> Cancel(AllTasks), pc |-> "awaiting",
     waiting |-> AllTasks]

CloseAll ==
    /\ CallsMade < MaxCalls
    /\ LET r == close_all_begin
       IN  /\ closed' = r.closed
           /\ task' = r.task
           /\ closeAllCalls' = Append(closeAllCalls,
                                      [pc |-> r.pc, waiting |-> r.waiting])
    /\ UNCHANGED <<subscription_id_sequence, constructed, closing, subscriptions,
                   taskEndedCalls, unsubscribeCalls, closeCalls,
                   streamVars>>

\* cancel_futures has waited for every task: close_all returns.
CloseAllResume(c) ==
    /\ c \in DOMAIN closeAllCalls
    /\ closeAllCalls[c].pc = "awaiting"
    /\ AllDone(closeAllCalls[c].waiting)
    /\ closeAllCalls' = [closeAllCalls EXCEPT ![c] =
          [pc |-> "returned", waiting |-> {}]]
    /\ UNCHANGED <<subscription_id_sequence, constructed, closed, closing,
                   subscriptions, task, taskEndedCalls, unsubscribeCalls,
                   closeCalls,
                   streamVars>>

\* ------------------------------------------------------------- specification
\* A call is made to the manager.
Call ==
    \/ \E s \in Sockets : Subscribe(s)
    \/ \E s \in Sockets, id \in Ids : UnsubscribeRequest(s, id)
    \/ \E s \in Sockets : CloseForSocket(s)
    \/ CloseAll

\* The event loop runs a producer or resumes a coroutine.
Step ==
    \/ \E t \in Ids : TaskFinishes(t)
    \/ \E t \in Ids : TaskCancelled(t)
    \/ \E t \in Ids : UnsubscribeScheduled(t)
    \/ \E t \in Ids : UnsubscribeScheduledResume(t)
    \/ \E c \in Calls : UnsubscribeResume(c)
    \/ \E c \in Calls : CloseForSocketResume(c)
    \/ \E c \in Calls : CloseAllResume(c)

Next == Call \/ Step

Spec == Init /\ [][Next]_vars

\* The event loop runs every coroutine it has scheduled: the unsubscribe
\* coroutine a task_ended callback made starts, and resumes once the task it
\* waits for is done.  Runs of at most LiveMaxCalls calls.
LiveNext ==
    \/ \E s \in Sockets : CallsMade < LiveMaxCalls /\ Subscribe(s)
    \/ \E s \in Sockets, id \in Ids :
          CallsMade < LiveMaxCalls /\ UnsubscribeRequest(s, id)
    \/ \E s \in Sockets : CallsMade < LiveMaxCalls /\ CloseForSocket(s)
    \/ CallsMade < LiveMaxCalls /\ CloseAll
    \/ Step

LiveSpec ==
    /\ Init
    /\ [][LiveNext]_vars
    /\ \A t \in Ids : WF_vars(UnsubscribeScheduled(t))
    /\ \A t \in Ids : WF_vars(UnsubscribeScheduledResume(t))

\* ------------------------------------------------------------- sync token
MaxRows == 3           \* rows of the job in the response table
MaxTokenLen == 8       \* bytes of a sync token that a client supplies

\* The byte values client tokens are made of: the header values 1 and 4, and
\* values that are wrong in every header position.
TokenBytes == {0, 1, 4, 127}
Tokens == UNION {[1..n -> TokenBytes] : n \in 0..MaxTokenLen}

\* The sequences that tokens are issued for: the first rows of a job and the
\* values around each byte boundary, up to the largest integer TLC has.
SampleSequences ==
    0..(MaxRows + 1) \cup {255, 256, 65535, 65536, 16777215, 16777216, 2147483647}

\* struct.pack('!L', n) with the least significant byte first.
PackU32_LittleEndian(n) ==
    IF n < 0 THEN [status |-> "struct.error"]
    ELSE [status |-> "ok",
          bytes |-> <<n % 256, (n \div 256) % 256, (n \div 65536) % 256,
                      (n \div 16777216) % 256>>]

\* struct.pack('!L', n): four bytes, most significant first; struct.error
\* when n is not an unsigned 32-bit number.  (The model's integers end at
\* 2^31 - 1, below the upper limit.)
PackU32(n) ==
    IF n < 0 THEN [status |-> "struct.error"]
    ELSE [status |-> "ok",
          bytes |-> <<(n \div 16777216) % 256, (n \div 65536) % 256,
                      (n \div 256) % 256, n % 256>>]

\* struct.unpack('!L', b)[0]; struct.error unless b has exactly four bytes.
UnpackU32(b) ==
    IF Len(b) # 4 THEN [status |-> "struct.error"]
    ELSE [status |-> "ok",
          value |-> b[1] * 16777216 + b[2] * 65536 + b[3] * 256 + b[4]]

\* token[:n]
Prefix(token, n) ==
    SubSeq(token, 1, IF Len(token) < n THEN Len(token) ELSE n)

\* token[-n:] for n > 0
Suffix(token, n) ==
    SubSeq(token, IF Len(token) < n THEN 1 ELSE Len(token) - n + 1, Len(token))

\* CrawlSyncSubscription._get_sync_token with self._sequence = sequence
get_sync_token(sequence) ==
    LET token_body == PackU32(sequence) IN
    IF token_body.status # "ok" THEN [kind |-> "struct.error"]
    ELSE [kind |-> "bytes",
          bytes |-> <<1, 1, Len(token_body.bytes)>> \o token_body.bytes]

\* CrawlSyncSubscription._decode_sync_token(token)
decode_sync_token(token) ==
    IF Len(Prefix(token, 3)) # 3 THEN [status |-> "struct.error"]
    ELSE LET version == token[1]
             type_ == token[2]
             length == token[3]
         IN IF version # 1 \/ type_ # 1 \/ length # 4
            THEN [status |-> "InvalidSyncToken"]
            ELSE LET sequence == UnpackU32(Suffix(token, length)) IN
                 IF sequence.status # "ok" THEN [status |-> "struct.error"]
                 ELSE [status |-> "ok", sequence |-> sequence.value]

\* A constructor that starts every stream at sequence 0.
CrawlSyncInit_IgnoresToken(id, token) ==
    [status |-> "constructed", id |-> id, sequence |-> 0]

\* CrawlSyncSubscription.__init__ as far as the sequence: the id (already
\* drawn from the id sequence) and the sequence the stream starts at, or the
\* exception the constructor raises.
CrawlSyncInit(id, token) ==
    IF token.kind = "None"
    THEN [status |-> "constructed", id |-> id, sequence |-> 0]
    ELSE LET decoded == decode_sync_token(token.bytes) IN
         IF decoded.status = "ok"
         THEN [status |-> "constructed", id |-> id, sequence |-> decoded.sequence]
         ELSE [status |-> decoded.status, id |-> id]

\* The manager is not in use.
NoManager ==
    /\ constructed = EmptyDict
    /\ closed = FALSE
    /\ closing = {}
    /\ subscriptions = EmptyDict
    /\ task = EmptyDict
    /\ taskEndedCalls = EmptyDict
    /\ unsubscribeCalls = <<>>
    /\ closeCalls = <<>>
    /\ closeAllCalls = <<>>

managerVars == <<constructed, closed, closing, subscriptions, task,
                 taskEndedCalls, unsubscribeCalls, closeCalls, closeAllCalls>>

\* Either a stream stands at one of the sample sequences and has issued no
\* token yet, or a client holds a token of its own making (or none).
TokenInit ==
    /\ subscription_id_sequence = -1
    /\ NoManager
    /\ ProducersIdle
    /\ ctor = [status |-> "none"]
    /\ \/ /\ issuer_sequence \in SampleSequences
          /\ sync_token = [kind |-> "unset"]
       \/ /\ issuer_sequence = -1
          /\ sync_token \in {[kind |-> "None"]}
                            \cup {[kind |-> "bytes", bytes |-> t] : t \in Tokens}

\* The stream sends an item: the item's token is made from the sequence.
TokenIssue ==
    /\ sync_token.kind = "unset"
    /\ sync_token' = get_sync_token(issuer_sequence)
    /\ UNCHANGED <<subscription_id_sequence, issuer_sequence, ctor, managerVars, statusVars,
                   producerVars>>

\* A client subscribes with the token: CrawlSyncSubscription is constructed.
TokenConstruct ==
    /\ ctor.status = "none"
    /\ sync_token.kind \in {"None", "bytes"}
    /\ subscription_id_sequence' = SequenceNext(subscription_id_sequence)
    /\ ctor' = CrawlSyncInit(SequenceNext(subscription_id_sequence), sync_token)
    /\ UNCHANGED <<issuer_sequence, sync_token, managerVars, statusVars, producerVars>>

TokenNext == TokenIssue \/ TokenConstruct

TokenSpec == TokenInit /\ [][TokenNext]_vars

\* ------------------------------------------------------------- crawl sync
MaxStreams == 2        \* streams of one client: the first and its resumptions

RunStates == {"running", "paused", "completed", "cancelled"}

\* The elements of a set of numbers in ascending order.
Ascending(S) ==
    [i \in 1..Cardinality(S) |->
        CHOOSE x \in S : Cardinality({y \in S : y < x}) = i - 1]

\* A query that returns all the rows of the job.
RowsFrom_Start(sequence) == Ascending(DOMAIN response)

\* _get_query().run(conn): the job's rows from (job_id, sequence) up, in the
\* order of sync_index.
RowsFrom(sequence) == Ascending({k \in DOMAIN response : k >= sequence})

\* The job_id a stream is constructed with, and that of another job of the
\* same tracker.
SubscribedJob == "job"
OtherJob == "other"

\* The object that __init__ leaves: _crawl_run_state and _item_count are None
\* ("None" and -1 here) and run() has not started.
NewStream(c) ==
    [id |-> c.id, job_id |-> SubscribedJob, pc |-> "status", sequence |-> c.sequence,
     crawl_run_state |-> "None", item_count |-> -1,
     cursor |-> <<>>, item |-> <<>>]

\* _handle_job_status(job_id, job)
handle_job_status(s, job_id, j) ==
    IF job_id = s.job_id
    THEN [s EXCEPT !.crawl_run_state = j.run_state, !.item_count = j.item_count]
    ELSE s

\* job_status_changed fires with the new status j of job job_id: the tracker
\* calls the registered callback of the stream, whatever has become of its
\* run().
Notify(job_id, j) ==
    IF sync.pc # "none" /\ sync.id \in listeners
    THEN handle_job_status(sync, job_id, j) ELSE sync

\* A predicate that looks at the sequence only.
sync_is_complete_IgnoresRunState(s) == s.sequence >= s.item_count - 1

\* _sync_is_complete()
sync_is_complete(s) ==
    /\ s.sequence >= s.item_count - 1
    /\ s.crawl_run_state \in {"completed", "cancelled"}

\* A loop body that counts only the rows it sends.
CountRow_SkipsFailures(s, row) ==
    IF response[row]
    THEN [s EXCEPT !.sequence = (IF row # s.sequence THEN row ELSE s.sequence) + 1]
    ELSE s

\* A loop body that counts the row without looking at its insert_sequence.
CountRow_NoResync(s, row) == [s EXCEPT !.sequence = s.sequence + 1]

\* The head of the loop body of run(): the stream catches up with the row's
\* insert_sequence if it differs, then counts the row.
CountRow(s, row) ==
    [s EXCEPT !.sequence = (IF row # s.sequence THEN row ELSE s.sequence) + 1]

\* A token made from the row's own insert_sequence.
ItemToken_OfRow(s, row) == get_sync_token(row)

\* _send_item: message.event.sync_item.token = self._get_sync_token()
ItemToken(s, row) == get_sync_token(s.sequence)

\* The ServerMessage _send_item builds for a row (s has counted the row).
SyncItem(s, row) ==
    [type |-> "sync_item", subscription_id |-> s.id, insert_sequence |-> row,
     token |-> ItemToken(s, row)]

\* The ServerMessage of _send_complete
SubscriptionClosed(s) ==
    [type |-> "subscription_closed", subscription_id |-> s.id, reason |-> "END"]

\* A run() that goes on polling after _send_complete.
AfterSendComplete_NoBreak == "sleep"

\* run(): break after _send_complete
AfterSendComplete == "finished"

\* A job with some of its rows stored, in any run state, and the client's first
\* stream constructed: without a token, or with the token of a successful row
\* that an earlier connection sent.
SyncInit ==
    /\ NoManager
    /\ issuer_sequence = -1
    /\ subscription_id_sequence = 0
    /\ \E S \in SUBSET (0..(MaxRows - 1)) :
          /\ response \in [S -> BOOLEAN]
          /\ job \in [run_state : RunStates, item_count : {Cardinality(S)}]
    /\ listeners = {}
    /\ sent = <<>>
    /\ jobs = EmptyDict
    /\ status = [pc |-> "none"]
    /\ sync_token \in
          {[kind |-> "None"]}
          \cup {get_sync_token(k + 1) : k \in {r \in DOMAIN response : response[r]}}
    /\ ctor = CrawlSyncInit(0, sync_token)
    /\ sync = NewStream(ctor)

\* The crawler stores a response: the row gets an insert_sequence above all
\* earlier ones, the job's item_count grows and the tracker tells its
\* listeners.
CrawlerInserts(k, ok) ==
    /\ job.run_state = "running"
    /\ \A r \in DOMAIN response : r < k
    /\ response' = SetItem(response, k, ok)
    /\ job' = [job EXCEPT !.item_count = @ + 1]
    /\ sync' = Notify(SubscribedJob, job')
    /\ UNCHANGED <<subscription_id_sequence, managerVars, statusVars, tokenVars, listeners, sent>>

\* The job is paused, resumed, cancelled or completes, and the tracker tells
\* its listeners.
JobChanges(r) ==
    /\ \/ job.run_state = "running" /\ r \in {"paused", "completed", "cancelled"}
       \/ job.run_state = "paused" /\ r \in {"running", "cancelled"}
    /\ job' = [job EXCEPT !.run_state = r]
    /\ sync' = Notify(SubscribedJob, job')
    /\ UNCHANGED <<subscription_id_sequence, managerVars, statusVars, tokenVars, response,
                   listeners, sent>>

\* Another job of the tracker starts, is paused, resumed, cancelled or
\* completes, and the tracker tells its listeners.
OtherJobChanges(r) ==
    /\ IF OtherJob \in DOMAIN jobs
       THEN \/ jobs[OtherJob].run_state = "running"
               /\ r \in {"paused", "completed", "cancelled"}
            \/ jobs[OtherJob].run_state = "paused" /\ r \in {"running", "cancelled"}
       ELSE r = "running"
    /\ jobs' = SetItem(jobs, OtherJob, [run_state |-> r, item_count |-> MaxRows + 1])
    /\ sync' = Notify(OtherJob, jobs'[OtherJob])
    /\ UNCHANGED <<subscription_id_sequence, managerVars, tokenVars, job, response,
                   listeners, sent, status>>

\* run(), _set_initial_job_status: the query on the job table is answered.
CrawlSyncInitialStatus ==
    /\ sync.pc = "status"
    /\ sync' = [sync EXCEPT !.crawl_run_state = job.run_state,
                            !.item_count = job.item_count,
                            !.pc = "listen"]
    /\ UNCHANGED <<subscription_id_sequence, managerVars, statusVars, tokenVars, job,
                   response, listeners, sent>>

\* run(): the connection of _set_initial_job_status is released, the callback
\* is registered and the loop asks for a connection.
CrawlSyncListen ==
    /\ sync.pc = "listen"
    /\ listeners' = listeners \cup {sync.id}
    /\ sync' = [sync EXCEPT !.pc = "query"]
    /\ UNCHANGED <<subscription_id_sequence, managerVars, statusVars, tokenVars, job,
                   response, sent>>

\* run(): the query of this pass is answered.
CrawlSyncQuery ==
    /\ sync.pc = "query"
    /\ sync' = [sync EXCEPT !.cursor = RowsFrom(sync.sequence), !.pc = "cursor"]
    /\ UNCHANGED <<subscription_id_sequence, managerVars, statusVars, tokenVars, job,
                   response, listeners, sent>>

\* run(): the cursor yields a row.  The row is counted and, if it is a
\* success, _send_item builds its message and starts to send it.
CrawlSyncNextItem ==
    /\ sync.pc = "cursor"
    /\ sync.cursor # <<>>
    /\ LET row == Head(sync.cursor)
           s == [CountRow(sync, row) EXCEPT !.cursor = Tail(sync.cursor)]
       IN sync' = IF response[row]
                  THEN [s EXCEPT !.item = <<SyncItem(s, row)>>, !.pc = "send"]
                  ELSE s
    /\ UNCHANGED <<subscription_id_sequence, managerVars, statusVars, tokenVars, job,
                   response, listeners, sent>>

\* run(): socket.send of _send_item returns; the message is with the client.
CrawlSyncSendItem ==
    /\ sync.pc = "send"
    /\ sent' = sent \o sync.item
    /\ sync' = [sync EXCEPT !.item = <<>>, !.pc = "cursor"]
    /\ UNCHANGED <<subscription_id_sequence, managerVars, statusVars, tokenVars, job,
                   response, listeners>>

\* run(): the cursor is exhausted and closed; the stream is complete and
\* starts to send END, or it goes to sleep.
CrawlSyncCursorEnds ==
    /\ sync.pc = "cursor"
    /\ sync.cursor = <<>>
    /\ sync' = [sync EXCEPT !.pc = IF sync_is_complete(sync)
                                   THEN "complete" ELSE "sleep"]
    /\ UNCHANGED <<subscription_id_sequence, managerVars, statusVars, tokenVars, job,
                   response, listeners, sent>>

\* run(): socket.send of _send_complete returns; the loop is left and the
\* callback is taken off the tracker.
CrawlSyncSendComplete ==
    /\ sync.pc = "complete"
    /\ sent' = Append(sent, SubscriptionClosed(sync))
    /\ sync' = [sync EXCEPT !.pc = AfterSendComplete]
    /\ listeners' = listeners \ {sync.id}
    /\ UNCHANGED <<subscription_id_sequence, managerVars, statusVars, tokenVars, job, response>>

\* run(): asyncio.sleep(1) returns.
CrawlSyncWakes ==
    /\ sync.pc = "sleep"
    /\ sync' = [sync EXCEPT !.pc = "query"]
    /\ UNCHANGED <<subscription_id_sequence, managerVars, statusVars, tokenVars, job,
                   response, listeners, sent>>

\* The suspension points of run().
Suspended == {"status", "listen", "query", "cursor", "send", "complete", "sleep"}

\* The task of run() is cancelled: CancelledError is raised at the suspension
\* point and leaves run(), which has no handler and no finally block.
CrawlSyncCancelled ==
    /\ sync.pc \in Suspended
    /\ sync' = [sync EXCEPT !.pc = "cancelled"]
    /\ UNCHANGED <<subscription_id_sequence, managerVars, statusVars, tokenVars, job,
                   response, listeners, sent>>

\* The database or the socket raises at the suspension point: the exception
\* leaves run() in the same way.
CrawlSyncFails ==
    /\ sync.pc \in Suspended \ {"sleep"}
    /\ sync' = [sync EXCEPT !.pc = "failed"]
    /\ UNCHANGED <<subscription_id_sequence, managerVars, statusVars, tokenVars, job,
                   response, listeners, sent>>

\* The sync items the client has received, in order.
ItemsReceived == SelectSeq(sent, LAMBDA m : m.type = "sync_item")

\* The token the client holds: that of the last item it received, or the one
\* it subscribed with as long as it has received none.
ClientToken ==
    IF ItemsReceived = <<>> THEN sync_token
    ELSE ItemsReceived[Len(ItemsReceived)].token

\* The client, whose stream was cancelled, subscribes again with the token it
\* holds: a new CrawlSyncSubscription is constructed and its run() starts.
CrawlSyncResume ==
    /\ sync.pc = "cancelled"
    /\ subscription_id_sequence + 1 < MaxStreams
    /\ subscription_id_sequence' = SequenceNext(subscription_id_sequence)
    /\ sync_token' = ClientToken
    /\ ctor' = CrawlSyncInit(SequenceNext(subscription_id_sequence), ClientToken)
    /\ sync' = NewStream(ctor')
    /\ UNCHANGED <<managerVars, statusVars, issuer_sequence, job, response, listeners, sent>>

SyncEnvironment ==
    \/ \E k \in 0..(MaxRows - 1), ok \in BOOLEAN : CrawlerInserts(k, ok)
    \/ \E r \in RunStates : JobChanges(r)

SyncRun ==
    \/ CrawlSyncInitialStatus
    \/ CrawlSyncListen
    \/ CrawlSyncQuery
    \/ CrawlSyncNextItem
    \/ CrawlSyncSendItem
    \/ CrawlSyncCursorEnds
    \/ CrawlSyncSendComplete
    \/ CrawlSyncWakes

SyncNext ==
    \/ SyncEnvironment
    \/ SyncRun
    \/ CrawlSyncCancelled
    \/ CrawlSyncFails
    \/ CrawlSyncResume

SyncSpec == SyncInit /\ [][SyncNext]_vars

\* A stream that is never cancelled and meets no error: the database answers,
\* the socket takes every message and the sleep ends, so run() goes on as
\* long as it has not returned.
SyncLiveNext ==
    \/ SyncEnvironment
    \/ SyncRun

\* The same stream beside a tracker that has another job as well.
SyncStartNext ==
    \/ SyncEnvironment
    \/ \E r \in RunStates : OtherJobChanges(r)
    \/ SyncRun

SyncStartSpec == SyncInit /\ [][SyncStartNext]_vars

SyncLiveSpec == SyncInit /\ [][SyncLiveNext]_vars /\ WF_vars(SyncRun)

\* ------------------------------------------------------------- job status
NumJobs == 1           \* jobs the tracker knows of
MaxChanges == 2        \* status changes the tracker publishes in one run
MaxInterval == 2       \* min_interval of the subscription, in clock ticks

JobIds == 1..NumJobs

\* The HTTP status codes that responses come with.
StatusCodes == {"200", "404"}

\* int(status_code): the keys of http_status_counts are strings in the
\* tracker's status and numbers in the message.
IntOf(status_code) ==
    CASE status_code = "200" -> 200
      [] status_code = "404" -> 404

\* The status of a job that has just started.  Of the fields of a status
\* only run_state, item_count and http_status_counts are kept: the other
\* scalar fields are merged exactly as item_count is.
FreshJob ==
    [run_state |-> "running", item_count |-> 0, http_status_counts |-> EmptyDict]

\* JobRunState.Value(new['run_state'].upper()): the member of the protobuf
\* enumeration, written by its name.
RunStateValue(r) ==
    CASE r = "running" -> "RUNNING"
      [] r = "paused" -> "PAUSED"
      [] r = "completed" -> "COMPLETED"
      [] r = "cancelled" -> "CANCELLED"

\* A _send_event that sets no http_status_counts entry.
Delta_ScalarsOnly(hasOld, old, new) ==
    [run_state |-> IF ~hasOld \/ old.run_state # new.run_state
                   THEN {RunStateValue(new.run_state)} ELSE {},
     item_count |-> IF ~hasOld \/ old.item_count # new.item_count
                    THEN {new.item_count} ELSE {},
     http_status_counts |-> EmptyDict]

\* A _send_event that sets every field of the new status.
Delta_Full(hasOld, old, new) ==
    [run_state |-> {RunStateValue(new.run_state)},
     item_count |-> {new.item_count},
     http_status_counts |->
        [c \in {IntOf(x) : x \in DOMAIN new.http_status_counts} |->
            new.http_status_counts[CHOOSE x \in DOMAIN new.http_status_counts :
                                      IntOf(x) = c]]]

\* What _send_event puts into pb_job for a job whose status is new, the last
\* status sent for it being old (hasOld is false if there is none): a scalar
\* field is set if it differs, and so is every http_status_counts entry.
\* A field that is left unset is the empty set here.
Delta(hasOld, old, new) ==
    LET old_status == IF hasOld THEN old.http_status_counts ELSE EmptyDict IN
    [run_state |-> IF ~hasOld \/ old.run_state # new.run_state
                   THEN {RunStateValue(new.run_state)} ELSE {},
     item_count |-> IF ~hasOld \/ old.item_count # new.item_count
                    THEN {new.item_count} ELSE {},
     http_status_counts |->
        LET changed == {x \in DOMAIN new.http_status_counts :
                           x \notin DOMAIN old_status
                           \/ old_status[x] # new.http_status_counts[x]} IN
        [c \in {IntOf(x) : x \in changed} |->
            new.http_status_counts[CHOOSE x \in changed : IntOf(x) = c]]]

\* _send_event up to its await: the message is built from _status against
\* _last_status, _last_status takes the new statuses, _status and the event
\* _status_changed are cleared, and socket.send starts.  The message is
\* stamped with the time since the previous _send_event, with the number of
\* notifications received since then and with whether it is the one that
\* run() sends before its loop.
send_event(s, startup) ==
    [s EXCEPT
       !.message = <<[type |-> "job_list", subscription_id |-> s.id,
                      jobs |-> [j \in DOMAIN s.status |->
                                  Delta(j \in DOMAIN s.last_status,
                                        IF j \in DOMAIN s.last_status
                                        THEN s.last_status[j] ELSE FreshJob,
                                        s.status[j])],
                      waited |-> s.since_event, changes |-> s.changes,
                      startup |-> startup]>>,
       !.last_status = [j \in DOMAIN s.last_status \cup DOMAIN s.status |->
                          IF j \in DOMAIN s.status THEN s.status[j]
                          ELSE s.last_status[j]],
       !.status = EmptyDict,
       !.status_changed = FALSE,
       !.since_event = 0,
       !.changes = 0,
       !.pc = "send"]

\* A _send_event that clears _status and the asyncio.Event after its await.
send_event_resume_Clears(s) ==
    [s EXCEPT !.message = <<>>, !.status = EmptyDict, !.status_changed = FALSE]

\* _send_event after its await: socket.send has returned, and _send_event
\* returns without touching _status or the asyncio.Event again.
send_event_resume(s) == [s EXCEPT !.message = <<>>]

\* run() enters asyncio.gather(asyncio.sleep(min_interval), wait()): the
\* sleep has min_interval ticks to go.
gather(s) == [s EXCEPT !.sleep = s.min_interval, !.pc = "gather"]

\* A wait that returns as soon as the sleep or the event is done.
GatherDone_FirstCompleted(s) == s.sleep = 0 \/ s.status_changed

\* asyncio.gather returns: the sleep is over and the event is set.
GatherDone(s) == s.sleep = 0 /\ s.status_changed

\* A callback that keeps the first status of a job it is told before the next
\* event and drops the later ones.
handle_status_changed_KeepsFirst(s, j, snapshot) ==
    [s EXCEPT !.status = IF j \in DOMAIN s.status THEN s.status
                         ELSE SetItem(s.status, j, snapshot),
              !.status_changed = TRUE,
              !.notified = s.notified + 1,
              !.changes = s.changes + 1]

\* _handle_status_changed(job_id, job)
handle_status_changed(s, j, snapshot) ==
    [s EXCEPT !.status = SetItem(s.status, j, snapshot),
              !.status_changed = TRUE,
              !.notified = s.notified + 1,
              !.changes = s.changes + 1]

\* The tracker knows some jobs; a JobStatusSubscription has been constructed:
\* it copied the tracker's statuses and registered its callback.
StatusInit ==
    /\ NoManager
    /\ issuer_sequence = -1
    /\ sync_token = [kind |-> "unset"]
    /\ ctor = [status |-> "none"]
    /\ job = [run_state |-> "None", item_count |-> 0]
    /\ response = EmptyDict
    /\ sync = [pc |-> "none"]
    /\ sent = <<>>
    /\ subscription_id_sequence = 0
    /\ \E n \in 0..NumJobs : jobs = [j \in 1..n |-> FreshJob]
    /\ listeners = {0}
    /\ \E i \in 1..MaxInterval :
          status = [id |-> 0, pc |-> "start", min_interval |-> i,
                    status |-> jobs, last_status |-> EmptyDict,
                    status_changed |-> FALSE, sleep |-> 0,
                    message |-> <<>>, notified |-> 0, changes |-> 0,
                    since_event |-> 0]

\* job_status_changed fires for job j: the tracker calls the registered
\* callback.
Publish(j, snapshot) ==
    /\ status.notified < MaxChanges
    /\ jobs' = SetItem(jobs, j, snapshot)
    /\ status' = IF status.id \in listeners
                 THEN handle_status_changed(status, j, snapshot) ELSE status
    /\ UNCHANGED <<subscription_id_sequence, managerVars, tokenVars,
                   producerVars>>

\* A job starts.  (Job ids are opaque: the jobs are numbered as they start.)
TrackerAddsJob(j) ==
    /\ j \notin DOMAIN jobs
    /\ \A i \in 1..(j - 1) : i \in DOMAIN jobs
    /\ Publish(j, FreshJob)

\* A running job gets a response with HTTP status code c.
TrackerCounts(j, c) ==
    /\ j \in DOMAIN jobs
    /\ jobs[j].run_state = "running"
    /\ LET counts == jobs[j].http_status_counts IN
       Publish(j, [jobs[j] EXCEPT
                     !.item_count = @ + 1,
                     !.http_status_counts =
                        SetItem(counts, c,
                                IF c \in DOMAIN counts THEN counts[c] + 1 ELSE 1)])

\* A job is paused, resumed, cancelled or completes.
TrackerRunState(j, r) ==
    /\ j \in DOMAIN jobs
    /\ \/ jobs[j].run_state = "running" /\ r \in {"paused", "completed", "cancelled"}
       \/ jobs[j].run_state = "paused" /\ r \in {"running", "cancelled"}
    /\ Publish(j, [jobs[j] EXCEPT !.run_state = r])

\* The clock of the event loop ticks while run() sends or waits: a sleep in
\* progress has one tick less to go.  (The time since the previous
\* _send_event is counted up to min_interval; the time before run() starts
\* is not counted, nothing depends on it.)
Tick ==
    /\ status.pc \in {"send", "gather"}
    /\ status' = [status EXCEPT
                    !.sleep = IF @ > 0 THEN @ - 1 ELSE 0,
                    !.since_event = IF @ < status.min_interval THEN @ + 1 ELSE @]
    /\ UNCHANGED <<subscription_id_sequence, managerVars, tokenVars,
                   producerVars, jobs>>

\* run() starts: with statuses at hand it sends them, without it waits.
JobStatusStarts ==
    /\ status.pc = "start"
    /\ status' = IF DOMAIN status.status # {}
                 THEN send_event(status, TRUE) ELSE gather(status)
    /\ UNCHANGED <<subscription_id_sequence, managerVars, tokenVars,
                   producerVars, jobs>>

\* socket.send of _send_event returns, the message is with the client, and
\* run() waits for the interval and for the next change.
JobStatusSent ==
    /\ status.pc = "send"
    /\ sent' = sent \o status.message
    /\ status' = gather(send_event_resume(status))
    /\ UNCHANGED <<subscription_id_sequence, managerVars, tokenVars, job,
                   response, listeners, sync, jobs>>

\* asyncio.gather returns and run() calls _send_event.
JobStatusWakes ==
    /\ status.pc = "gather"
    /\ GatherDone(status)
    /\ status' = send_event(status, FALSE)
    /\ UNCHANGED <<subscription_id_sequence, managerVars, tokenVars,
                   producerVars, jobs>>

\* The task of run() is cancelled: CancelledError leaves run(), and nothing
\* takes the callback off the tracker.  (An exception that socket.send raises
\* leaves run() in the same way.)
JobStatusCancelled ==
    /\ status.pc \in {"start", "send", "gather"}
    /\ status' = [status EXCEPT !.pc = "cancelled"]
    /\ UNCHANGED <<subscription_id_sequence, managerVars, tokenVars,
                   producerVars, jobs>>

StatusNext ==
    \/ \E j \in JobIds : TrackerAddsJob(j)
    \/ \E j \in JobIds, c \in StatusCodes : TrackerCounts(j, c)
    \/ \E j \in JobIds, r \in RunStates : TrackerRunState(j, r)
    \/ Tick
    \/ JobStatusStarts
    \/ JobStatusSent
    \/ JobStatusWakes
    \/ JobStatusCancelled

StatusSpec == StatusInit /\ [][StatusNext]_vars

\* The event loop runs a task that is ready and its clock advances; a send
\* returns unless it fails, which JobStatusCancelled stands for.
JobStatusRun == JobStatusStarts \/ JobStatusSent \/ JobStatusWakes

StatusTracker ==
    \/ \E j \in JobIds : TrackerAddsJob(j)
    \/ \E j \in JobIds, c \in StatusCodes : TrackerCounts(j, c)
    \/ \E j \in JobIds, r \in RunStates : TrackerRunState(j, r)

\* A subscription that nobody cancels and whose sends succeed.
StatusLiveNext == StatusTracker \/ Tick \/ JobStatusRun

StatusLiveSpec ==
    StatusInit /\ [][StatusLiveNext]_vars /\ WF_vars(Tick) /\ WF_vars(JobStatusRun)

\* ------------------------------------------------------------- properties
\* The task records of the registry, as (socket, id) pairs.
Records ==
    {p \in Sockets \X Ids :
        p[1] \in DOMAIN subscriptions /\ p[2] \in DOMAIN subscriptions[p[1]]}

\* The record add made for subscription t is still in the registry.
HasRecord(t) == t \in DOMAIN constructed /\ <<constructed[t].socket, t>> \in Records

\* Call c of close_for_socket takes a step (it begins, or it resumes).
CloseForSocketStep(c) ==
    /\ c \in DOMAIN closeCalls'
    /\ c \in DOMAIN closeCalls => closeCalls[c].pc # closeCalls'[c].pc

\* C1: after close_all has returned, the registry holds no record and no
\* producer task is still executing.
C1_CloseAllLeavesNothing ==
    (\E c \in DOMAIN closeAllCalls : closeAllCalls[c].pc = "returned")
        => /\ Records = {}
           /\ \A t \in DOMAIN task : Done(t)

\* C2: when close_for_socket(S) returns, the registry has no entry for S:
\* no task record under S and no key S.
C2_CloseForSocketLeavesNoEntry ==
    [][\A c \in DOMAIN closeCalls' :
          (CloseForSocketStep(c) /\ closeCalls'[c].pc = "returned")
              => closeCalls'[c].socket \notin DOMAIN subscriptions']_vars

\* C3: once close_all has been called the manager stays closed, and every
\* add made from then on fails, registers no record and launches no
\* producer; the manager is closed by close_all only.
C3_ClosedRejectsAdd ==
    [][/\ closed => closed'
       /\ (closed' /\ ~closed) => Len(closeAllCalls') = Len(closeAllCalls) + 1
       /\ closed => /\ DOMAIN task' = DOMAIN task
                    /\ Records' \subseteq Records
                    /\ \A id \in DOMAIN constructed' \ DOMAIN constructed :
                          constructed'[id].add = "closed"]_vars

\* An add was rejected by a closed manager whose close_all has not returned.
C3_Witness ==
    /\ closed
    /\ \E c \in DOMAIN closeAllCalls : closeAllCalls[c].pc = "awaiting"
    /\ \E id \in DOMAIN constructed :
          constructed[id].add = "closed" /\ id \notin DOMAIN task

\* C4: while a close_for_socket(S) is in progress S is in the closing set,
\* and no add registers a record or launches a producer for S.
C4_ClosingWhileInProgress ==
    [][\A c \in DOMAIN closeCalls :
          closeCalls[c].pc = "awaiting"
              => /\ closeCalls[c].socket \in closing
                 /\ \A id \in DOMAIN task' \ DOMAIN task :
                       constructed'[id].socket # closeCalls[c].socket]_vars

\* C5: no close_for_socket raises, also when it is a second call for the
\* same socket, and once no call for a socket is in progress the socket is
\* not in the closing set.
C5_CloseForSocketIdempotent ==
    /\ \A c \in DOMAIN closeCalls : closeCalls[c].pc # "raised"
    /\ \A s \in closing :
          \E c \in DOMAIN closeCalls :
              closeCalls[c].socket = s /\ closeCalls[c].pc = "awaiting"

\* C6: unsubscribe never raises; for a registered (socket, id) it requests
\* the cancellation of the producer and returns only when the producer is
\* done, its record being gone; for an unknown pair it returns at once and
\* cancels nothing.
C6_UnsubscribeNeverRaises ==
    [][/\ \A c \in DOMAIN unsubscribeCalls' :
             /\ unsubscribeCalls'[c].pc # "raised"
             /\ c \notin DOMAIN unsubscribeCalls =>
                   LET s == unsubscribeCalls'[c].socket
                       id == unsubscribeCalls'[c].id
                   IN  IF <<s, id>> \in Records
                       THEN /\ unsubscribeCalls'[c].pc = "awaiting"
                            /\ task'[id] # "pending"
                       ELSE /\ unsubscribeCalls'[c].pc = "returned"
                            /\ task' = task
             /\ (c \in DOMAIN unsubscribeCalls
                 /\ unsubscribeCalls[c].pc = "awaiting"
                 /\ unsubscribeCalls'[c].pc = "returned") =>
                   /\ task'[unsubscribeCalls[c].id] \in TaskDone
                   /\ <<unsubscribeCalls[c].socket, unsubscribeCalls[c].id>>
                         \notin Records'
       /\ \A t \in DOMAIN taskEndedCalls' :
             /\ taskEndedCalls'[t] # "raised"
             /\ (t \in DOMAIN taskEndedCalls
                 /\ taskEndedCalls[t] # "returned"
                 /\ taskEndedCalls'[t] = "returned") =>
                   /\ task'[t] \in TaskDone
                   /\ <<constructed[t].socket, t>> \notin Records']_vars

\* A client's unsubscribe of a registered pair has returned, and so has the
\* unsubscribe that the task's task_ended callback made for the same pair;
\* another unsubscribe, of a pair never registered, has returned too.
C6_Witness ==
    /\ \E c \in DOMAIN unsubscribeCalls :
          /\ unsubscribeCalls[c].pc = "returned"
          /\ unsubscribeCalls[c].id \in DOMAIN task
          /\ constructed[unsubscribeCalls[c].id].socket = unsubscribeCalls[c].socket
          /\ task[unsubscribeCalls[c].id] = "cancelled"
          /\ taskEndedCalls[unsubscribeCalls[c].id] = "returned"
    /\ \E c \in DOMAIN unsubscribeCalls :
          /\ unsubscribeCalls[c].pc = "returned"
          /\ unsubscribeCalls[c].id \notin DOMAIN constructed

\* C7: a step of close_for_socket(A) changes neither the records nor the
\* producer of a subscription bound to another socket.
C7_SocketIsolation ==
    [][\A c \in DOMAIN closeCalls' :
          CloseForSocketStep(c) =>
              /\ \A B \in Sockets \ {closeCalls'[c].socket} :
                    /\ B \in DOMAIN subscriptions <=> B \in DOMAIN subscriptions'
                    /\ B \in DOMAIN subscriptions =>
                          subscriptions'[B] = subscriptions[B]
              /\ \A t \in DOMAIN task :
                    constructed[t].socket # closeCalls'[c].socket
                        => task'[t] = task[t]]_vars

\* close_for_socket(A) has cancelled A's producer and returned, while a
\* producer of another socket is pending and registered.
C7_Witness ==
    \E c \in DOMAIN closeCalls :
        /\ closeCalls[c].pc = "returned"
        /\ \E t \in DOMAIN task :
              constructed[t].socket = closeCalls[c].socket /\ task[t] = "cancelled"
        /\ \E u \in DOMAIN task :
              /\ constructed[u].socket # closeCalls[c].socket
              /\ task[u] = "pending"
              /\ HasRecord(u)

\* C8: the registry holds the record of a subscription if and only if its
\* producer task is still running.
C8_RecordIffRunning ==
    \A t \in DOMAIN task : HasRecord(t) <=> ~Done(t)

\* C9: whenever a registered producer is done, however it ended, its record
\* is eventually out of the registry.
C9_DoneRecordRemoved ==
    \A t \in Ids : (t \in DOMAIN task /\ Done(t)) ~> ~HasRecord(t)

\* A producer ended by itself and its record is gone, no client having
\* called unsubscribe, close_for_socket or close_all.
C9_Witness ==
    /\ unsubscribeCalls = <<>> /\ closeCalls = <<>> /\ closeAllCalls = <<>>
    /\ \E t \in DOMAIN task :
          task[t] = "finished" /\ taskEndedCalls[t] = "returned" /\ ~HasRecord(t)

\* C10: a close_all called after a close_all has returned changes neither
\* the closed flag nor the registry, and cancels no producer.
C10_CloseAllIdempotent ==
    [][(/\ Len(closeAllCalls') = Len(closeAllCalls) + 1
        /\ \E c \in DOMAIN closeAllCalls : closeAllCalls[c].pc = "returned")
          => /\ closed' = closed
             /\ subscriptions' = subscriptions
             /\ task' = task
             /\ closeAllCalls'[Len(closeAllCalls')].pc # "raised"]_vars

\* Two calls of close_all have returned, the first having cancelled a
\* producer.
C10_Witness ==
    /\ Len(closeAllCalls) >= 2
    /\ \A c \in DOMAIN closeAllCalls : closeAllCalls[c].pc = "returned"
    /\ \E t \in DOMAIN task : task[t] = "cancelled"

\* C11: subscription ids come from one process-wide counter.  The first
\* subscription constructed has id 0, every construction gets an id strictly
\* greater than every id handed out before it, and no id is given to two
\* subscriptions: a construction adds exactly one new id and leaves the
\* subscriptions constructed earlier as they were.
C11_IdsStrictlyIncrease ==
    [][constructed' # constructed =>
         LET new == DOMAIN constructed' \ DOMAIN constructed IN
         /\ Cardinality(new) = 1
         /\ \A n \in new :
               /\ \A i \in DOMAIN constructed : n > i
               /\ DOMAIN constructed = {} => n = 0
               /\ n = subscription_id_sequence'
         /\ \A i \in DOMAIN constructed :
               i \in DOMAIN constructed' /\ constructed'[i] = constructed[i]]_vars

\* Three subscriptions have been constructed, the second of them rejected by
\* add: their ids are 0, 1 and 2.
C11_Witness ==
    /\ DOMAIN constructed = {0, 1, 2}
    /\ constructed[1].add # "ok"
    /\ subscription_id_sequence = 2

\* The number that four bytes spell, most significant byte first.
BigEndianValue(b) == ((b[1] * 256 + b[2]) * 256 + b[3]) * 256 + b[4]

\* C12: token round trip.  The token issued for a sequence s of the unsigned
\* 32-bit range is the seven bytes 1, 1, 4 followed by s as a big-endian
\* 32-bit number, and a stream constructed with that token starts at s.
C12_TokenRoundTrip ==
    (issuer_sequence >= 0 /\ sync_token.kind # "unset") =>
        /\ sync_token.kind = "bytes"
        /\ Len(sync_token.bytes) = 7
        /\ SubSeq(sync_token.bytes, 1, 3) = <<1, 1, 4>>
        /\ \A i \in 4..7 : sync_token.bytes[i] \in 0..255
        /\ BigEndianValue(SubSeq(sync_token.bytes, 4, 7)) = issuer_sequence
        /\ ctor.status # "none" =>
              ctor.status = "constructed" /\ ctor.sequence = issuer_sequence

\* The token issued at sequence 65536 is 1, 1, 4, 0, 1, 0, 0 and the stream
\* constructed with it starts at 65536.
C12_Witness ==
    /\ issuer_sequence = 65536
    /\ sync_token = [kind |-> "bytes", bytes |-> <<1, 1, 4, 0, 1, 0, 0>>]
    /\ ctor.status = "constructed"
    /\ ctor.sequence = 65536

\* A client token is malformed: it is shorter than the header, or its
\* version or type is not 1, or its payload length is not 4, or its total
\* length is not the header plus the payload.
Malformed(token) ==
    \/ Len(token) < 3
    \/ token[1] # 1
    \/ token[2] # 1
    \/ token[3] # 4
    \/ Len(token) # 3 + token[3]

\* C13: constructing a stream with a malformed token fails with
\* InvalidSyncToken and with no other error, and never yields a subscription.
C13_MalformedTokenRejected ==
    (sync_token.kind = "bytes" /\ ctor.status # "none"
     /\ Malformed(sync_token.bytes)) => ctor.status = "InvalidSyncToken"

\* The sync items sent on subscription id, in the order they were sent.
ItemsOf(id) ==
    SelectSeq(sent, LAMBDA m : m.type = "sync_item" /\ m.subscription_id = id)

\* The sequence that the token of a sent item decodes to.
TokenSequence(m) == decode_sync_token(m.token.bytes).sequence

\* C14: within one Crawl Sync stream, over all its passes, the items go out in
\* strictly ascending insert_sequence, so none is sent twice, and the token of
\* a later item decodes to a strictly greater sequence.
C14_ItemsStrictlyAscending ==
    \A id \in 0..(MaxStreams - 1) :
        \A i, j \in DOMAIN ItemsOf(id) :
            i < j =>
                /\ ItemsOf(id)[i].insert_sequence < ItemsOf(id)[j].insert_sequence
                /\ TokenSequence(ItemsOf(id)[i]) < TokenSequence(ItemsOf(id)[j])

\* The first stream has sent rows 0 and 2 (row 1 being no success or absent)
\* and is asleep between two passes.
C14_Witness ==
    /\ Len(ItemsOf(0)) = 2
    /\ ItemsOf(0)[1].insert_sequence = 0
    /\ ItemsOf(0)[2].insert_sequence = 2
    /\ sync.id = 0
    /\ sync.pc = "sleep"

\* The insert_sequences of the items in a sequence of messages.
SequencesOf(items) == {items[i].insert_sequence : i \in DOMAIN items}

\* The row whose message the stream is sending (at most one).
Pending == SequencesOf(sync.item)

\* C15: resumption leaves no gap and no overlap.  A stream constructed with
\* the token of the last item k that the cancelled stream delivered starts at
\* k + 1; what it has sent, plus the item it is sending, are exactly the
\* successful rows from k + 1 up to its sequence, in ascending order, and none
\* of them was delivered before.
C15_ResumeNoGapNoOverlap ==
    (sync.id >= 1 /\ ItemsOf(sync.id - 1) # <<>>) =>
        LET earlier == ItemsOf(sync.id - 1)
            k == earlier[Len(earlier)].insert_sequence
            mine == ItemsOf(sync.id)
        IN /\ ctor.sequence = k + 1
           /\ SequencesOf(mine) \cup Pending =
                 {r \in DOMAIN response :
                     response[r] /\ k + 1 <= r /\ r < sync.sequence}
           /\ Pending \cap SequencesOf(mine) = {}
           /\ SequencesOf(mine) \cap SequencesOf(earlier) = {}
           /\ \A i, j \in DOMAIN mine :
                  i < j => mine[i].insert_sequence < mine[j].insert_sequence

\* The first stream delivered row 0 and was cancelled; the stream resumed with
\* the token of row 0 has sent rows 1 and 2.
C15_Witness ==
    /\ sync.id = 1
    /\ SequencesOf(ItemsOf(0)) = {0}
    /\ Len(ItemsOf(1)) = 2
    /\ SequencesOf(ItemsOf(1)) = {1, 2}

\* C16: every sync_item carries the token of the sequence after the
\* increment: it decodes to the item's insert_sequence plus one.
C16_TokenIsNextSequence ==
    \A i \in DOMAIN sent :
        sent[i].type = "sync_item" =>
            /\ sent[i].token.kind = "bytes"
            /\ decode_sync_token(sent[i].token.bytes) =
                  [status |-> "ok", sequence |-> sent[i].insert_sequence + 1]

\* Rows 0, 1 and 2 have been sent on one stream with the tokens of 1, 2, 3.
C16_Witness ==
    /\ Len(ItemsOf(0)) = 3
    /\ \A i \in 1..3 :
          /\ ItemsOf(0)[i].insert_sequence = i - 1
          /\ ItemsOf(0)[i].token.bytes = <<1, 1, 4, 0, 0, 0, i>>

\* The positions in sent of the END messages of subscription id.
EndsOf(id) ==
    {i \in DOMAIN sent :
        sent[i].type = "subscription_closed" /\ sent[i].subscription_id = id}

\* C17: END is sent only on graceful completion.  A stream that was cancelled
\* or that failed has sent no END; a stream sends END at most once, as its
\* last message, and exactly when its run() returns.
C17_EndOnlyOnCompletion ==
    /\ sync.pc \in {"cancelled", "failed"} => EndsOf(sync.id) = {}
    /\ \A id \in 0..(sync.id - 1) : EndsOf(id) = {}
    /\ Cardinality(EndsOf(sync.id)) <= 1
    /\ \A i \in EndsOf(sync.id) :
          \A j \in DOMAIN sent : sent[j].subscription_id = sync.id => j <= i
    /\ EndsOf(sync.id) # {} <=> sync.pc = "finished"

\* The first stream sent an item and was cancelled while it slept or waited
\* for the database; the resumed stream sent the rest and then END.
C17_Witness ==
    /\ sync.id = 1
    /\ sync.pc = "finished"
    /\ ItemsOf(0) # <<>>
    /\ ItemsOf(1) # <<>>
    /\ sent[Len(sent)] = [type |-> "subscription_closed", subscription_id |-> 1,
                          reason |-> "END"]

\* C18: once a producer has been terminated by cancellation, its callback is
\* no longer registered on the tracker's job_status_changed event.
C18_CancelledNotListening ==
    /\ sync.pc = "cancelled" => sync.id \notin listeners
    /\ \A id \in 0..(sync.id - 1) : id \notin listeners

\* C19: a Crawl Sync stream that is never cancelled and meets no error
\* eventually sends END and returns once the job is completed or cancelled
\* (the job then gets no more rows, and the passes replay those it has).
C19_EventuallyEnd ==
    (job.run_state \in {"completed", "cancelled"}) ~>
        (sync.pc = "finished" /\ EndsOf(sync.id) # {})

\* The events of the Job Status subscription in the order _send_event built
\* them: those the socket has taken and the one being sent.
StatusEvents ==
    SelectSeq(sent, LAMBDA m : m.type = "job_list") \o status.message

\* C20: throttling.  Only the first event can be the one run() sends at its
\* start; every other event is built when at least one change notification
\* has arrived since the previous event was built and, if there is a previous
\* event, when at least min_interval has passed since then.
C20_Throttled ==
    \A i \in DOMAIN StatusEvents :
        LET m == StatusEvents[i] IN
        /\ m.startup => i = 1
        /\ ~m.startup =>
              /\ m.changes >= 1
              /\ i > 1 => m.waited >= status.min_interval

\* With min_interval 2: the startup event and two more events have been sent,
\* each of them reporting one change.
C20_Witness ==
    /\ status.min_interval = 2
    /\ Len(sent) = 3
    /\ sent[1].startup
    /\ sent[2].changes = 1 /\ sent[2].waited = 2
    /\ sent[3].changes = 1 /\ sent[3].waited = 2

\* What a client knows of a job: every field it was ever sent, with the value
\* sent last.  Nothing at first.
EmptyView == [run_state |-> {}, item_count |-> {}, http_status_counts |-> EmptyDict]

\* The pointwise merge of a delta into what the client knows.
Merge(view, delta) ==
    [run_state |-> IF delta.run_state # {} THEN delta.run_state ELSE view.run_state,
     item_count |-> IF delta.item_count # {} THEN delta.item_count
                    ELSE view.item_count,
     http_status_counts |->
        [c \in DOMAIN view.http_status_counts \cup DOMAIN delta.http_status_counts |->
            IF c \in DOMAIN delta.http_status_counts
            THEN delta.http_status_counts[c] ELSE view.http_status_counts[c]]]

\* A status as a client that was sent all of it knows it.
ViewOf(snapshot) ==
    [run_state |-> {RunStateValue(snapshot.run_state)},
     item_count |-> {snapshot.item_count},
     http_status_counts |->
        [c \in {IntOf(x) : x \in DOMAIN snapshot.http_status_counts} |->
            snapshot.http_status_counts[
                CHOOSE x \in DOMAIN snapshot.http_status_counts : IntOf(x) = c]]]

\* The merge of the deltas of job j in the first n of a sequence of events.
RECURSIVE MergedView(_, _, _)
MergedView(events, j, n) ==
    IF n = 0 THEN EmptyView
    ELSE IF j \in DOMAIN events[n].jobs
         THEN Merge(MergedView(events, j, n - 1), events[n].jobs[j])
         ELSE MergedView(events, j, n - 1)

\* _send_event builds an event.
BuildsEvent == status.message = <<>> /\ status'.message # <<>>

\* C21: coalescing.  All the notifications that arrived since the previous
\* event, however many, go into exactly one event: it has one entry for each
\* job notified in the window (or known at the start), nothing is left over
\* for a second event, and merged into what was sent before, each entry gives
\* the latest status that the tracker published for the job.
C21_Coalescing ==
    [][BuildsEvent =>
         LET e == status'.message[1] IN
         /\ e.changes = status.changes
         /\ status'.changes = 0
         /\ DOMAIN status'.status = {}
         /\ DOMAIN e.jobs = DOMAIN status.status
         /\ \A j \in DOMAIN e.jobs :
               Merge(MergedView(StatusEvents, j, Len(StatusEvents)), e.jobs[j])
                  = ViewOf(jobs[j])]_vars

\* The second event reports two changes of job 1 at once: the job got a
\* response with code 200 and then completed.
C21_Witness ==
    /\ Len(StatusEvents) = 2
    /\ StatusEvents[2].changes = 2
    /\ StatusEvents[2].jobs[1] =
          [run_state |-> {"COMPLETED"}, item_count |-> {1},
           http_status_counts |-> (200 :> 1)]

\* C22: delta soundness.  At every moment after an event was built, for
\* every job that was ever put into an event, the pointwise merge of all the
\* deltas built for the job so far is the status that was last fed to the
\* subscription for the job before the latest of them was built
\* (_last_status); and unless a newer notification for the job is waiting
\* for the next event, that is the latest status the tracker published.
C22_DeltaSound ==
    \A j \in DOMAIN status.last_status :
        /\ MergedView(StatusEvents, j, Len(StatusEvents))
              = ViewOf(status.last_status[j])
        /\ j \notin DOMAIN status.status => status.last_status[j] = jobs[j]

\* Job 1 was sent in full at first; then it got a 404 response, and the
\* second event carries only the two fields that changed.
C22_Witness ==
    /\ Len(StatusEvents) = 2
    /\ StatusEvents[1].jobs[1] =
          [run_state |-> {"RUNNING"}, item_count |-> {0},
           http_status_counts |-> EmptyDict]
    /\ StatusEvents[2].jobs[1] =
          [run_state |-> {}, item_count |-> {1},
           http_status_counts |-> (404 :> 1)]
    /\ status.status = EmptyDict

\* C27: delta encoding.  When an event is built, the entry of each job sets a
\* scalar field exactly if its value differs from what the deltas built
\* before made of it, and sets an http_status_counts entry exactly if the new
\* status has the code with a count that differs; what is set has the new
\* value; the first entry of a job is its complete status; and no entry names
\* a code that the new status does not have.
C27_DeltaEncoding ==
    [][BuildsEvent =>
         \A j \in DOMAIN status'.message[1].jobs :
            LET d == status'.message[1].jobs[j]
                last == MergedView(StatusEvents, j, Len(StatusEvents))
                new == ViewOf(status.status[j])
            IN  /\ d.run_state # {} <=> last.run_state # new.run_state
                /\ d.run_state # {} => d.run_state = new.run_state
                /\ d.item_count # {} <=> last.item_count # new.item_count
                /\ d.item_count # {} => d.item_count = new.item_count
                /\ \A c \in {IntOf(x) : x \in StatusCodes} :
                      /\ c \in DOMAIN d.http_status_counts <=>
                            /\ c \in DOMAIN new.http_status_counts
                            /\ \/ c \notin DOMAIN last.http_status_counts
                               \/ last.http_status_counts[c]
                                     # new.http_status_counts[c]
                      /\ c \in DOMAIN d.http_status_counts =>
                            d.http_status_counts[c] = new.http_status_counts[c]
                /\ DOMAIN d.http_status_counts \subseteq DOMAIN new.http_status_counts
                /\ last = EmptyView => d = new]_vars

\* Job 1 had a 200 response when it was first sent; then it was paused, and
\* the second event sets its run_state and nothing else.
C27_Witness ==
    /\ Len(StatusEvents) = 2
    /\ StatusEvents[1].jobs[1] =
          [run_state |-> {"RUNNING"}, item_count |-> {1},
           http_status_counts |-> (200 :> 1)]
    /\ StatusEvents[2].jobs[1] =
          [run_state |-> {"PAUSED"}, item_count |-> {},
           http_status_counts |-> EmptyDict]

\* C29: no change is lost.  Under StatusLiveSpec, whenever a notification for
\* a job waits in _status, whether it arrived before run() started, during a
\* wait or during a send, then later either the subscription is cancelled
\* (or its send fails), or the notification has left _status and the deltas
\* built so far make up the latest status the tracker published for the job.
C29_NoChangeLost ==
    \A j \in JobIds :
        (j \in DOMAIN status.status) ~>
            \/ status.pc = "cancelled"
            \/ /\ j \notin DOMAIN status.status
               /\ j \in DOMAIN jobs
               /\ MergedView(StatusEvents, j, Len(StatusEvents)) = ViewOf(jobs[j])

\* The job was cancelled after the first event was built, and the second
\* event, now with the client, says so.
C29_Witness ==
    /\ Len(StatusEvents) = 2
    /\ status.message = <<>>
    /\ StatusEvents[2].changes = 1
    /\ StatusEvents[2].jobs[1].run_state = {"CANCELLED"}
    /\ status.pc = "gather"

\* C23: END needs the completion predicate.  A stream that is sending END or
\* has sent it is at the end of a replay pass (its cursor is exhausted), and
\* the state it holds satisfies the predicate: its sequence is at least
\* item_count - 1 and its run_state is completed or cancelled, so never
\* running or paused.
C23_EndNeedsPredicate ==
    (sync.pc \in {"complete", "finished"} \/ EndsOf(sync.id) # {}) =>
        /\ sync.cursor = <<>>
        /\ sync.sequence >= sync.item_count - 1
        /\ sync.crawl_run_state \in {"completed", "cancelled"}
        /\ sync.crawl_run_state \notin {"running", "paused"}

\* The stream learnt from a notification that the job was cancelled, ended
\* its pass with all three rows counted, and sent END.
C23_Witness ==
    /\ sync.id = 0
    /\ EndsOf(0) # {}
    /\ sync.crawl_run_state = "cancelled"
    /\ job.run_state = "cancelled"
    /\ sync.item_count = 3
    /\ sync.sequence = 3
    /\ Len(ItemsOf(0)) >= 1

\* C24: no premature EOF.  When a stream has sent END, its sequence has
\* reached item_count, and every successful row with an insert_sequence below
\* item_count and not below the sequence the stream started at has been sent
\* by it.
C24_NoPrematureEnd ==
    EndsOf(sync.id) # {} =>
        /\ sync.sequence >= sync.item_count
        /\ \A r \in DOMAIN response :
              (response[r] /\ r < sync.item_count /\ r >= ctor.sequence) =>
                  r \in SequencesOf(ItemsOf(sync.id))

\* The loop of run() takes the next row off its cursor.
ReplaysRow ==
    /\ sync.pc = "cursor"
    /\ sync.cursor # <<>>
    /\ sync'.pc \in {"cursor", "send"}
    /\ sync'.id = sync.id
    /\ sync'.cursor = Tail(sync.cursor)

\* C25: every replayed row is counted once, a success or not: it leaves the
\* sequence one above its insert_sequence, which is the old sequence plus
\* exactly 1 when the row is the expected one.  A message is built for the
\* row exactly if it is a success; a failure leaves the stream at its cursor
\* with nothing to send and nothing sent.
C25_RowCountedOnce ==
    [][ReplaysRow =>
         LET row == Head(sync.cursor) IN
         /\ sync'.sequence = row + 1
         /\ row = sync.sequence => sync'.sequence = sync.sequence + 1
         /\ sync'.item # <<>> <=> response[row]
         /\ response[row] =>
               /\ sync'.pc = "send"
               /\ sync'.item[1].type = "sync_item"
               /\ sync'.item[1].insert_sequence = row
         /\ ~response[row] => sync'.pc = "cursor" /\ sent' = sent]_vars

\* Rows 0 (a success), 1 (a failure) and 2 (a success) were replayed by one
\* stream: two items went out, and the token of the last decodes to 3.
C25_Witness ==
    /\ sync.id = 0
    /\ DOMAIN response = {0, 1, 2}
    /\ response[0] /\ ~response[1] /\ response[2]
    /\ Len(ItemsOf(0)) = 2
    /\ ItemsOf(0)[1].insert_sequence = 0
    /\ ItemsOf(0)[2].insert_sequence = 2
    /\ TokenSequence(ItemsOf(0)[2]) = 3
    /\ sync.sequence = 3

\* C26: gap resync.  A row whose insert_sequence differs from the sequence
\* the stream expects makes the stream take the row's insert_sequence as its
\* sequence and count the row from there; the row is not dropped, a success
\* is sent with the token of insert_sequence + 1; and the stream neither
\* fails nor ends.
C26_GapResync ==
    [][(ReplaysRow /\ Head(sync.cursor) # sync.sequence) =>
         LET row == Head(sync.cursor) IN
         /\ sync'.sequence = row + 1
         /\ response[row] =>
               /\ sync'.pc = "send"
               /\ sync'.item # <<>>
               /\ sync'.item[1].insert_sequence = row
               /\ TokenSequence(sync'.item[1]) = row + 1
         /\ sync'.pc \notin {"failed", "finished", "cancelled", "complete"}
         /\ sync'.id \in listeners'
         /\ EndsOf(sync.id)' = {}]_vars

\* The job has rows 0 and 2 and no row 1: the stream sent row 0, met row 2
\* while it expected 1, and sent row 2 with the token of 3.
C26_Witness ==
    /\ sync.id = 0
    /\ DOMAIN response = {0, 2}
    /\ Len(ItemsOf(0)) = 2
    /\ ItemsOf(0)[1].insert_sequence = 0
    /\ ItemsOf(0)[2].insert_sequence = 2
    /\ TokenSequence(ItemsOf(0)[2]) = 3
    /\ sync.pc \in {"cursor", "sleep", "query"}

\* C30: no status change is missed at startup.  Once run() has fetched the
\* initial status and registered its callback, the run_state and item_count
\* the stream holds are the latest the tracker published for its job,
\* however the tracker's notifications fell between the two steps; so they
\* are when the tracker stops publishing.
C30_StartupMissesNothing ==
    (sync.pc \in {"query", "cursor", "send", "sleep", "complete"}
     /\ sync.id \in listeners) =>
        /\ sync.crawl_run_state = job.run_state
        /\ sync.item_count = job.item_count

\* unsubscribe(socket, id) starts for a pair that has no record in the
\* registry: a client's request, or the coroutine task_ended scheduled.
UnsubscribesUnregistered ==
    \/ /\ Len(unsubscribeCalls') = Len(unsubscribeCalls) + 1
       /\ LET c == unsubscribeCalls'[Len(unsubscribeCalls')]
          IN  <<c.socket, c.id>> \notin Records
    \/ \E t \in DOMAIN taskEndedCalls :
          /\ taskEndedCalls[t] = "scheduled"
          /\ taskEndedCalls'[t] # "scheduled"
          /\ <<constructed[t].socket, t>> \notin Records

\* C28: unsubscribing a pair that is not registered leaves the registry
\* exactly as it was: the dict of subscriptions has the same keys and the
\* same records afterwards, and no task is cancelled.
C28_UnsubscribeUnregisteredFrame ==
    [][UnsubscribesUnregistered =>
         /\ DOMAIN subscriptions' = DOMAIN subscriptions
         /\ subscriptions' = subscriptions
         /\ task' = task]_vars
====
